---------------------------- MODULE Spec2Model ----------------------------
(***************************************************************************)
(* State-machine model of the LangGraph PR-review workflow of              *)
(* src/app/service/workflow_service_langgraph.py: the four graph nodes     *)
(* (context, commentor, reviewer, post), the two routers, the compiled     *)
(* graph and the public service function that executes the graph twice     *)
(* (graph.astream_events, then graph.ainvoke).                             *)
(*                                                                         *)
(* A text is a sequence of characters, so that str.strip() and len() are   *)
(* computed and not assumed.  A fixed literal of the source is kept as a   *)
(* one-element text holding the literal.  A Python dict is a function      *)
(* whose DOMAIN is the set of keys present; d.get(k) of an absent key is   *)
(* Python's None, which is falsy.                                          *)
(***************************************************************************)
EXTENDS Integers, Sequences, FiniteSets, TLC

VARIABLES
    pc,            \* next node of the graph: context | commentor | reviewer | post | END; returned | failed
    pass,          \* 1: graph.astream_events(init_state), 2: graph.ainvoke(init_state)
    state,         \* PRReviewState: the dict the nodes mutate and return
    tool_calls,    \* the list object state["tool_calls"] (shared with init_state)
    events,        \* the list object state["events"] (shared with init_state)
    env_token,     \* os.getenv("GITHUB_TOKEN"), "" when unset
    client,        \* the GitHubClient local of the latest node invocation
    publishes,     \* reviews created on the host: the bodies sent by post_pr_review
    llm_response,  \* the latest language-model response of this graph execution
    last_node,     \* the node that executed last in this graph execution
    prompt,        \* the state-derived parts of the latest language-model prompt
    gate_verdicts, \* the outcome of each reviewer_node invocation of this graph execution
    ever,          \* what the language model has answered so far during the call
    final_response \* result["final_response"] of run_pr_review_workflow_langgraph

vars == <<pc, pass, state, tool_calls, events, env_token, client, publishes,
          llm_response, last_node, prompt, gate_verdicts, ever, final_response>>

---------------------------------------------------------------------------
(* Bounds of the model *)

\* events and tool_calls keep at most MaxLog entries in the model: an append
\* to a full list is dropped, the step itself still runs.
MaxLog == 3

\* reviewer_node is not invoked more than MaxGateCalls times in one graph execution.
MaxGateCalls == 3

---------------------------------------------------------------------------
(* Texts *)

SP == " "

T_EMPTY == <<>>
T_OK == <<"o", "k">>
T_PAD == <<SP, "o", "k", SP>>
T_EDIT == <<"o", "k", "!">>
T_FIX == <<"f", "i", "x">>
T_FIXPAD == <<SP, "f", "i", "x">>

Lit(s) == <<s>>

RECURSIVE LStrip(_)
LStrip(t) == IF t # <<>> /\ Head(t) = SP THEN LStrip(Tail(t)) ELSE t

RECURSIVE RStrip(_)
RStrip(t) == IF t # <<>> /\ t[Len(t)] = SP THEN RStrip(SubSeq(t, 1, Len(t) - 1)) ELSE t

\* str.strip()
Strip(t) == RStrip(LStrip(t))

---------------------------------------------------------------------------
(* Python dicts *)

Has(d, k) == k \in DOMAIN d

Put(d, k, v) == [x \in (DOMAIN d) \cup {k} |-> IF x = k THEN v ELSE d[x]]

\* d.get(k, default)
GetOr(d, k, default) == IF Has(d, k) THEN d[k] ELSE default

\* bool(d.get(k)) of a flag
Flag(d, k) == Has(d, k) /\ d[k] = TRUE

\* d.get(k) or "" of a text
TextOf(d, k) == IF Has(d, k) THEN d[k] ELSE T_EMPTY

\* append to a list object of the run
Log(list, rec) == IF Len(list) < MaxLog THEN Append(list, rec) ELSE list

RECURSIVE LogAll(_, _)
LogAll(list, recs) ==
    IF recs = <<>> THEN list ELSE LogAll(Log(list, Head(recs)), Tail(recs))

---------------------------------------------------------------------------
(* The request and the host *)

\* A user prompt is a sequence of tokens: a word, a whitespace run, the text
\* "PR" (any case), the character "#", or a run of digits with its value.
Tok(k, n) == [k |-> k, n |-> n]

W == Tok("word", 0)
S == Tok("ws", 0)

\* "Please review PR #42"
PROMPT_42 == <<W, S, W, S, Tok("pr", 0), S, Tok("hash", 0), Tok("num", 42)>>
\* "review PR 7"
PROMPT_7 == <<W, S, Tok("pr", 0), S, Tok("num", 7)>>
\* "review this"
PROMPT_NONE == <<W, S, W>>

Prompts == {PROMPT_42, PROMPT_7, PROMPT_NONE}

REPO_URL == "https://github.com/u/r.git"
ENV_TOKEN == "ghp_env"
REQ_TOKEN == "ghp_req"
NO_TOKEN == ""

\* The pull requests of the host repository, and the files at their head.
HostPRs == {42}
HostFiles == {"a.py", "b.md"}

FileContent(path) == Lit(path)

\* What a host call of one node invocation can do: succeed, or raise at the
\* named call (an authentication, rate-limit or transport failure).
ContextFaults == {"none", "repo", "pr", "commit", "file"}
PostFaults == {"none", "repo", "publish"}

\* re.search(r"(?:#|PR\s*)(\d+)", user_prompt, re.IGNORECASE) at position i
MatchAt(p, i) ==
    \/ /\ p[i].k = "hash"
       /\ i + 1 <= Len(p) /\ p[i + 1].k = "num"
    \/ /\ p[i].k = "pr"
       /\ \/ i + 1 <= Len(p) /\ p[i + 1].k = "num"
          \/ i + 2 <= Len(p) /\ p[i + 1].k = "ws" /\ p[i + 2].k = "num"

MatchPositions(p) == {i \in 1..Len(p) : MatchAt(p, i)}

FirstMatch(p) == CHOOSE i \in MatchPositions(p) : \A j \in MatchPositions(p) : i <= j

\* _extract_pr_number answering 0 instead of raising when nothing matches
_extract_pr_number_Default(p) ==
    IF MatchPositions(p) = {}
    THEN [ok |-> TRUE, n |-> 0]
    ELSE LET i == FirstMatch(p)
         IN  [ok |-> TRUE, n |-> IF p[i + 1].k = "num" THEN p[i + 1].n ELSE p[i + 2].n]

\* _extract_pr_number: [ok |-> FALSE] is the ValueError
_extract_pr_number(p) ==
    IF MatchPositions(p) = {}
    THEN [ok |-> FALSE, n |-> 0]
    ELSE LET i == FirstMatch(p)
         IN  [ok |-> TRUE, n |-> IF p[i + 1].k = "num" THEN p[i + 1].n ELSE p[i + 2].n]

\* get_pr_details_step of an existing pull request
PrDetails(n) ==
    [author |-> "dev", title |-> "t", state |-> "open", head_sha |-> "h1",
     commit_shas |-> <<"c1">>, number |-> n]

\* get_commit_details_step
CommitFiles(sha) ==
    <<[filename |-> "a.py", status |-> "modified", additions |-> 1,
       deletions |-> 0, changes |-> 1, patch |-> "@@"]>>

---------------------------------------------------------------------------
(* Observability *)

AgentEvent(name) == [type |-> "agent", name |-> name]
ToolEvent(tool) == [type |-> "tool_call", tool |-> tool]
OutputEvent(content) == [type |-> "output", content |-> content]
ToolCall(tool, args) == [tool |-> tool, args |-> args]

\* _init_obs: the two lists exist already, reviewer_attempts defaults to 0
_init_obs(s) == IF Has(s, "reviewer_attempts") THEN s ELSE Put(s, "reviewer_attempts", 0)


ToolEvents(tcs) == [i \in 1..Len(tcs) |-> ToolEvent(tcs[i].tool)]

---------------------------------------------------------------------------
(* The host client *)

\* closes counts the calls of close() on the client
NoClient == [status |-> "none", token |-> NO_TOKEN, closes |-> 0]

\* GitHubClient.__init__(repo_url, token): the token is os.getenv("GITHUB_TOKEN"),
\* the token argument is not read; raises when the environment has none, and
\* when get_repo fails.
GitHubClient(token, env, fault) ==
    IF env = NO_TOKEN \/ fault = "repo"
    THEN [ok |-> FALSE, client |-> NoClient]
    ELSE [ok |-> TRUE, client |-> [status |-> "open", token |-> env, closes |-> 0]]

\* Close never releasing the client
Close_Forgotten(c) == c

\* GitHubClient.close
Close(c) == [c EXCEPT !.status = "closed", !.closes = @ + 1]

---------------------------------------------------------------------------
(* context_node *)

\* state.get("pr_number") is truthy
HasPrNumber(s) == Has(s, "pr_number") /\ s["pr_number"] # 0

\* state.get("requested_files", []) or []
RequestedFiles(s) == GetOr(s, "requested_files", <<>>)

CommitToolCalls(shas) ==
    [i \in 1..Len(shas) |-> ToolCall("get_commit_details_step", [commit_sha |-> shas[i]])]

FileToolCalls(paths, ref) ==
    [i \in 1..Len(paths) |->
        ToolCall("get_file_contents_step", [file_path |-> paths[i], ref |-> ref])]

RECURSIVE ChangedFilesAll(_)
ChangedFilesAll(shas) ==
    IF shas = <<>> THEN <<>> ELSE CommitFiles(Head(shas)) \o ChangedFilesAll(Tail(shas))

\* ExtraFilesText listing the sections last request first
ExtraFilesText_Reversed(paths) ==
    [i \in 1..Len(paths) |->
        [path |-> paths[Len(paths) + 1 - i], content |-> FileContent(paths[Len(paths) + 1 - i])]]

\* the f"\n\n### File: {path}\n```text\n{content}\n```" sections, in request order
ExtraFilesText(paths) ==
    [i \in 1..Len(paths) |-> [path |-> paths[i], content |-> FileContent(paths[i])]]

\* the index of the first requested file whose fetch raises, 0 when none does
FirstBadFile(paths, fault) ==
    LET bad == {i \in 1..Len(paths) : paths[i] \notin HostFiles \/ fault = "file"}
    IN  IF bad = {} THEN 0 ELSE CHOOSE i \in bad : \A j \in bad : i <= j

Gathered(details, changed, extra) ==
    [pr_details |-> details, changed_files |-> changed, extra_files |-> extra]

\* ResetRequest forgetting the file list
ResetRequest_KeepFiles(s) == Put(s, "needs_more_context", FALSE)

\* The step's reset of the request flags (the lines after gathered_contexts is stored).
ResetRequest(s) == Put(Put(s, "needs_more_context", FALSE), "requested_files", <<>>)

\* context_node(state): [ok |-> FALSE] is an exception leaving the node.
\* state is the dict as the node leaves it, tcs the tool-call records it
\* appended, outs the output events it appended.
context_node(s, env, fault) ==
    LET s0 == _init_obs(s)
        made == GitHubClient(GetOr(s0, "github_token", NO_TOKEN), env, fault)
        ex == IF HasPrNumber(s0)
              THEN [ok |-> TRUE, n |-> s0["pr_number"]]
              ELSE _extract_pr_number(s0["user_prompt"])
        s1 == Put(s0, "pr_number", ex.n)
        tc_pr == <<ToolCall("get_pr_details_step", [pr_number |-> ex.n])>>
        details == PrDetails(ex.n)
        shas == details.commit_shas
        paths == RequestedFiles(s1)
        bad == FirstBadFile(paths, fault)
        closed == Close(made.client)
        Raise(st, tcs, c) ==
            [ok |-> FALSE, state |-> st, tcs |-> tcs, outs |-> <<>>, client |-> c]
    IN  IF ~made.ok THEN Raise(s0, <<>>, NoClient)
        ELSE IF ~ex.ok THEN Raise(s0, <<>>, closed)
        ELSE IF ex.n \notin HostPRs \/ fault = "pr" THEN Raise(s1, tc_pr, closed)
        ELSE IF fault = "commit" /\ shas # <<>>
             THEN Raise(s1, tc_pr \o SubSeq(CommitToolCalls(shas), 1, 1), closed)
        ELSE IF bad # 0
             THEN Raise(s1, tc_pr \o CommitToolCalls(shas)
                            \o SubSeq(FileToolCalls(paths, details.head_sha), 1, bad),
                        closed)
        ELSE [ok |-> TRUE,
              state |-> ResetRequest(Put(s1, "gathered_contexts",
                            Gathered(details, ChangedFilesAll(shas), ExtraFilesText(paths)))),
              tcs |-> tc_pr \o CommitToolCalls(shas) \o FileToolCalls(paths, details.head_sha),
              outs |-> <<OutputEvent(Lit("Context gathered."))>>,
              client |-> closed]

---------------------------------------------------------------------------
(* The language model *)

\* A response is raw text.  json says what json.loads makes of it: "invalid"
\* (it raises), "object" (a dict, given as data) or "other" (a list, a
\* string, a number or null).  A JSON value inside data that is not a text
\* or a list is written as its JSON literal ("true", "false", "1", "\"true\"").
Invalid(raw) == [json |-> "invalid", raw |-> raw, data |-> [none |-> "none"]]
Object(data) == [json |-> "object", raw |-> Lit("{...}"), data |-> data]
NonObject == [json |-> "other", raw |-> Lit("[1]"), data |-> [none |-> "none"]]
NoResponse == [json |-> "none", raw |-> T_EMPTY, data |-> [none |-> "none"]]

FileRequests == {<<"a.py">>, <<"b.md", "a.py">>, <<"zz.py">>}
Drafts == {T_EMPTY, T_OK, T_PAD}

CommentorResponses ==
    {Invalid(T_PAD), NonObject}
    \cup {Object([action |-> "need_context", requested_files |-> f]) : f \in FileRequests}
    \cup {Object([action |-> "need_context"])}
    \cup {Object([action |-> "draft", review_comment |-> t]) : t \in Drafts}
    \cup {Object([action |-> "draft"]), Object([review_comment |-> T_OK])}

ReviewerResponses ==
    {Invalid(T_OK), NonObject}
    \cup {Object([ok |-> "true", final_review_comment |-> t]) : t \in {T_EMPTY, T_EDIT}}
    \cup {Object([ok |-> "true"])}
    \cup {Object([ok |-> "false", revision_notes |-> n]) : n \in {T_FIX, T_FIXPAD}}
    \cup {Object([ok |-> "false"]), Object([ok |-> "\"true\""]), Object([ok |-> "1"]),
          Object([revision_notes |-> T_FIX])}

GENERIC_NOTE == Lit("Output must be strict JSON and meet the review criteria (...).")
DEFAULT_NOTE == Lit("Please rewrite to meet the criteria.")

\* the literal of the retry cap in reviewer_node
REVIEWER_ATTEMPT_CAP == 1

---------------------------------------------------------------------------
(* commentor_node *)

\* CommentorData trimming the raw text of an unparseable response
CommentorData_Stripped(resp) ==
    IF resp.json = "invalid"
    THEN [action |-> "draft", review_comment |-> Strip(resp.raw)]
    ELSE resp.data

\* json.loads with the except branch: unparseable text is a draft, verbatim
CommentorData(resp) ==
    IF resp.json = "invalid"
    THEN [action |-> "draft", review_comment |-> resp.raw]
    ELSE resp.data

\* the revision notes the prompt is built from (the prompt also holds the
\* user prompt and the gathered context)
CommentorPrompt(s) ==
    [revision_notes |-> Strip(TextOf(s, "revision_notes")), draft |-> T_EMPTY]

\* data.get("action") == "need_context"
AsksContextOf(data) == Has(data, "action") /\ data["action"] = "need_context"

\* NeedContext also discarding the current draft
NeedContext_DropsDraft(s, data) ==
    LET files == GetOr(data, "requested_files", <<>>)
    IN  [ok |-> TRUE,
         state |-> Put(Put(Put(Put(s, "needs_more_context", TRUE),
                               "requested_files", files),
                           "revision_notes", T_EMPTY),
                       "review_comment", T_EMPTY),
         outs |-> <<OutputEvent(<<"Needs more context: ">> \o files)>>]

\* the need_context branch
NeedContext(s, data) ==
    LET files == GetOr(data, "requested_files", <<>>)
    IN  [ok |-> TRUE,
         state |-> Put(Put(Put(s, "needs_more_context", TRUE),
                           "requested_files", files),
                       "revision_notes", T_EMPTY),
         outs |-> <<OutputEvent(<<"Needs more context: ">> \o files)>>]

\* Draft never promoting the draft under the escape flag
Draft_NoPromotion(s, data) ==
    LET review_comment == GetOr(data, "review_comment", T_EMPTY)
    IN  [ok |-> TRUE,
         state |-> Put(Put(s, "review_comment", review_comment), "review_ok", FALSE),
         outs |-> <<OutputEvent(review_comment)>>]

\* the draft branch
Draft(s, data) ==
    LET review_comment == GetOr(data, "review_comment", T_EMPTY)
        s1 == Put(s, "review_comment", review_comment)
    IN  IF Flag(s1, "force_commentor_final")
        THEN [ok |-> TRUE,
              state |-> Put(Put(s1, "final_review_comment", review_comment),
                            "review_ok", TRUE),
              outs |-> <<OutputEvent(Lit("Force final: skipping reviewer"))>>]
        ELSE [ok |-> TRUE,
              state |-> Put(s1, "review_ok", FALSE),
              outs |-> <<OutputEvent(review_comment)>>]

\* commentor_node(state) with the model answering resp
commentor_node(s, resp) ==
    LET s0 == _init_obs(s)
        data == CommentorData(resp)
    IN  IF resp.json = "other"
        THEN [ok |-> FALSE, state |-> s0, outs |-> <<>>]    \* data.get: AttributeError
        ELSE IF Has(data, "action") /\ data["action"] = "need_context"
        THEN NeedContext(s0, data)
        ELSE Draft(s0, data)

---------------------------------------------------------------------------
(* reviewer_node *)

\* json.loads with the except branch: unparseable text is a rejection
ReviewerData(resp) ==
    IF resp.json = "invalid"
    THEN [ok |-> "false", revision_notes |-> GENERIC_NOTE]
    ELSE resp.data

\* the draft the prompt is built from
ReviewerPrompt(s) ==
    [revision_notes |-> T_EMPTY, draft |-> Strip(TextOf(s, "review_comment"))]

\* IsApproval testing truthiness: the string "true" and 1 approve
IsApproval_Truthy(data) == Has(data, "ok") /\ data["ok"] \in {"true", "\"true\"", "1"}

\* data.get("ok") is True
IsApproval(data) == Has(data, "ok") /\ data["ok"] = "true"

\* CountAttempt not counting
CountAttempt_Skipped(s) == s

\* state["reviewer_attempts"] += 1
CountAttempt(s) == Put(s, "reviewer_attempts", s["reviewer_attempts"] + 1)

\* the approval branch
Approve(s, data) ==
    LET draft == ReviewerPrompt(s).draft
        final_text == GetOr(data, "final_review_comment", draft)
    IN  [ok |-> TRUE,
         state |-> Put(Put(s, "review_ok", TRUE), "final_review_comment", final_text),
         outs |-> <<OutputEvent(final_text)>>]

\* Reject comparing with > instead of >=, so that the first rejection sets no flag
Reject_NoEscape(s, data) ==
    LET notes == GetOr(data, "revision_notes", DEFAULT_NOTE)
        s1 == Put(Put(s, "review_ok", FALSE), "revision_notes", notes)
    IN  [ok |-> TRUE,
         state |-> IF s1["reviewer_attempts"] > REVIEWER_ATTEMPT_CAP
                   THEN Put(s1, "force_commentor_final", TRUE)
                   ELSE s1,
         outs |-> <<OutputEvent(notes)>>]

\* Reject storing the default note whatever the model answered
Reject_DefaultNote(s, data) ==
    LET s1 == Put(Put(s, "review_ok", FALSE), "revision_notes", DEFAULT_NOTE)
    IN  [ok |-> TRUE,
         state |-> Put(s1, "force_commentor_final", TRUE),
         outs |-> <<OutputEvent(DEFAULT_NOTE)>>]

\* the rejection branch
Reject(s, data) ==
    LET notes == GetOr(data, "revision_notes", DEFAULT_NOTE)
        s1 == Put(Put(s, "review_ok", FALSE), "revision_notes", notes)
    IN  [ok |-> TRUE,
         state |-> IF s1["reviewer_attempts"] >= REVIEWER_ATTEMPT_CAP
                   THEN Put(s1, "force_commentor_final", TRUE)
                   ELSE s1,
         outs |-> <<OutputEvent(notes)>>]

\* reviewer_node(state) with the model answering resp
reviewer_node(s, resp) ==
    LET s1 == CountAttempt(_init_obs(s))
        data == ReviewerData(resp)
    IN  IF resp.json = "other"
        THEN [ok |-> FALSE, state |-> s1, outs |-> <<>>]    \* data.get: AttributeError
        ELSE IF IsApproval(data) THEN Approve(s1, data)
        ELSE Reject(s1, data)

---------------------------------------------------------------------------
(* post_node *)

\* PostBody preferring the draft to the final text
PostBody_DraftFirst(s) ==
    IF TextOf(s, "review_comment") # T_EMPTY THEN s["review_comment"]
    ELSE TextOf(s, "final_review_comment")

\* state.get("final_review_comment") or state.get("review_comment") or ""
PostBody(s) ==
    IF TextOf(s, "final_review_comment") # T_EMPTY THEN s["final_review_comment"]
    ELSE TextOf(s, "review_comment")

\* MayPost looking at the final text instead of the approval flag
MayPost_FinalText(s) == TextOf(s, "final_review_comment") # T_EMPTY

\* the guard of post_node: state.get("review_ok") is truthy
MayPost(s) == Flag(s, "review_ok")

\* post_node(state): published is the review created on the host, if any
post_node(s, env, fault) ==
    LET s0 == _init_obs(s)
        made == GitHubClient(GetOr(s0, "github_token", NO_TOKEN), env, fault)
        closed == Close(made.client)
        body == PostBody(s0)
        tc == <<ToolCall("post_review_comment",
                         [pr_number |-> s0["pr_number"], body_len |-> Len(body)])>>
        Raise(tcs, c) ==
            [ok |-> FALSE, state |-> s0, tcs |-> tcs, outs |-> <<>>, client |-> c,
             published |-> <<>>]
    IN  IF ~MayPost(s0)
        THEN [ok |-> TRUE, state |-> s0, tcs |-> <<>>,
              outs |-> <<OutputEvent(Lit("Skipped posting because review_ok=False"))>>,
              client |-> NoClient, published |-> <<>>]
        ELSE IF ~made.ok THEN Raise(<<>>, NoClient)
        ELSE IF ~Has(s0, "pr_number") THEN Raise(<<>>, closed)    \* KeyError
        ELSE IF s0["pr_number"] \notin HostPRs \/ fault = "publish" THEN Raise(tc, closed)
        ELSE [ok |-> TRUE, state |-> s0, tcs |-> tc,
              outs |-> <<OutputEvent(Lit("Posted to GitHub."))>>,
              client |-> closed,
              published |-> <<[pr_number |-> s0["pr_number"], body |-> body]>>]

---------------------------------------------------------------------------
(* Routing *)

\* route_after_commentor going to post once anything has been logged
route_after_commentor_ByLog(s) ==
    IF Has(s, "events") /\ s["events"] # <<>> THEN "post"
    ELSE IF Flag(s, "needs_more_context") THEN "context"
    ELSE IF Flag(s, "force_commentor_final") THEN "post"
    ELSE "reviewer"

\* route_after_commentor not reading the escape flag
route_after_commentor_GateAgain(s) ==
    IF Flag(s, "needs_more_context") THEN "context" ELSE "reviewer"

\* route_after_commentor testing the escape flag first
route_after_commentor_EscapeFirst(s) ==
    IF Flag(s, "force_commentor_final") THEN "post"
    ELSE IF Flag(s, "needs_more_context") THEN "context"
    ELSE "reviewer"

route_after_commentor(s) ==
    IF Flag(s, "needs_more_context") THEN "context"
    ELSE IF Flag(s, "force_commentor_final") THEN "post"
    ELSE "reviewer"

\* route_after_reviewer sending a rejected draft to the context step
route_after_reviewer_ToContext(s) == IF Flag(s, "review_ok") THEN "post" ELSE "context"

\* route_after_reviewer going to post whatever the verdict
route_after_reviewer_ToPost(s) == "post"

route_after_reviewer(s) == IF Flag(s, "review_ok") THEN "post" ELSE "commentor"

---------------------------------------------------------------------------
(* The graph and the service function *)

\* init_state of run_pr_review_workflow_langgraph (its two lists are the
\* variables tool_calls and events)
InitState(user_prompt, github_token) ==
    [repo_url |-> REPO_URL, github_token |-> github_token, user_prompt |-> user_prompt]

NoPrompt == [revision_notes |-> T_EMPTY, draft |-> T_EMPTY]

NothingYet == [approved |-> FALSE, need_context |-> FALSE]

Init ==
    /\ pc = "context"
    /\ pass = 1
    /\ \E p \in Prompts, tok \in {NO_TOKEN, REQ_TOKEN} : state = InitState(p, tok)
    /\ tool_calls = <<>>
    /\ events = <<>>
    /\ env_token \in {NO_TOKEN, ENV_TOKEN}
    /\ client = NoClient
    /\ publishes = <<>>
    /\ llm_response = NoResponse
    /\ last_node = "none"
    /\ prompt = NoPrompt
    /\ gate_verdicts = <<>>
    /\ ever = NothingYet
    /\ final_response = T_EMPTY

\* the entry point and the edge context -> commentor
ContextNode ==
    /\ pc = "context"
    /\ \E fault \in ContextFaults :
        LET r == context_node(state, env_token, fault)
        IN  /\ state' = r.state
            /\ tool_calls' = LogAll(tool_calls, r.tcs)
            /\ events' = LogAll(events,
                    <<AgentEvent("ContextAgent")>> \o ToolEvents(r.tcs) \o r.outs)
            /\ client' = r.client
            /\ pc' = IF r.ok THEN "commentor" ELSE "failed"
    /\ last_node' = "context"
    /\ UNCHANGED <<pass, env_token, publishes, llm_response, prompt, gate_verdicts,
                   ever, final_response>>

\* the node commentor and its conditional edges
CommentorNode(responses) ==
    /\ pc = "commentor"
    /\ \E resp \in responses :
        LET r == commentor_node(state, resp)
        IN  /\ state' = r.state
            /\ events' = LogAll(events, <<AgentEvent("CommentorAgent")>> \o r.outs)
            /\ pc' = IF r.ok THEN route_after_commentor(r.state) ELSE "failed"
            /\ llm_response' = resp
            /\ ever' = [ever EXCEPT !.need_context =
                            @ \/ (r.ok /\ Flag(r.state, "needs_more_context"))]
    /\ prompt' = CommentorPrompt(state)
    /\ client' = NoClient
    /\ last_node' = "commentor"
    /\ UNCHANGED <<pass, tool_calls, env_token, publishes, gate_verdicts, final_response>>

\* the node reviewer and its conditional edges
ReviewerNode(responses) ==
    /\ pc = "reviewer"
    /\ Len(gate_verdicts) < MaxGateCalls
    /\ \E resp \in responses :
        LET r == reviewer_node(state, resp)
        IN  /\ state' = r.state
            /\ events' = LogAll(events, <<AgentEvent("ReviewAndPostingAgent")>> \o r.outs)
            /\ pc' = IF r.ok THEN route_after_reviewer(r.state) ELSE "failed"
            /\ llm_response' = resp
            /\ ever' = [ever EXCEPT !.approved = @ \/ (r.ok /\ Flag(r.state, "review_ok"))]
            /\ gate_verdicts' = Append(gate_verdicts,
                    IF ~r.ok THEN "raised"
                    ELSE IF Flag(r.state, "review_ok") THEN "approved" ELSE "rejected")
    /\ prompt' = ReviewerPrompt(state)
    /\ client' = NoClient
    /\ last_node' = "reviewer"
    /\ UNCHANGED <<pass, tool_calls, env_token, publishes, final_response>>

\* the node post and the edge post -> END
PostNode ==
    /\ pc = "post"
    /\ \E fault \in PostFaults :
        LET r == post_node(state, env_token, fault)
        IN  /\ state' = r.state
            /\ tool_calls' = LogAll(tool_calls, r.tcs)
            /\ events' = LogAll(events,
                    <<AgentEvent("PostToGitHub")>> \o ToolEvents(r.tcs) \o r.outs)
            /\ client' = r.client
            /\ publishes' = publishes \o r.published
            /\ pc' = IF r.ok THEN "END" ELSE "failed"
    /\ last_node' = "post"
    /\ UNCHANGED <<pass, env_token, llm_response, prompt, gate_verdicts, ever,
                   final_response>>

\* graph.astream_events(init_state) has ended: graph.ainvoke(init_state)
\* executes the graph again from init_state
Ainvoke ==
    /\ pc = "END"
    /\ pass = 1
    /\ pass' = 2
    /\ pc' = "context"
    /\ state' = InitState(state["user_prompt"], state["github_token"])
    /\ client' = NoClient
    /\ llm_response' = NoResponse
    /\ last_node' = "none"
    /\ prompt' = NoPrompt
    /\ gate_verdicts' = <<>>
    /\ UNCHANGED <<tool_calls, events, env_token, publishes, ever, final_response>>

\* graph.ainvoke has ended: the result is built from final_state
Return ==
    /\ pc = "END"
    /\ pass = 2
    /\ pc' = "returned"
    /\ final_response' = PostBody(state)
    /\ UNCHANGED <<pass, state, tool_calls, events, env_token, client, publishes,
                   llm_response, last_node, prompt, gate_verdicts, ever>>

Next ==
    \/ ContextNode
    \/ CommentorNode(CommentorResponses)
    \/ ReviewerNode(ReviewerResponses)
    \/ PostNode
    \/ Ainvoke
    \/ Return

Spec == Init /\ [][Next]_vars

\* A language model whose draft step always returns a draft and whose gate
\* never approves.
DraftingResponses ==
    {r \in CommentorResponses :
        /\ r.json # "other"
        /\ ~(Has(CommentorData(r), "action") /\ CommentorData(r)["action"] = "need_context")}

RejectingResponses == {r \in ReviewerResponses : r.json = "other" \/ ~IsApproval(ReviewerData(r))}

NextStubborn ==
    \/ ContextNode
    \/ CommentorNode(DraftingResponses)
    \/ ReviewerNode(RejectingResponses)
    \/ PostNode
    \/ Ainvoke
    \/ Return

\* The executor runs the next node as soon as the previous one has returned.
StubbornSpec == Init /\ [][NextStubborn]_vars /\ WF_vars(NextStubborn)

\* A language model whose draft step asks for more context every time.
AskingResponses == {r \in CommentorResponses : r.json = "object" /\ AsksContextOf(r.data)}

NextAsking ==
    \/ ContextNode
    \/ CommentorNode(AskingResponses)

AskingSpec == Init /\ [][NextAsking]_vars /\ WF_vars(NextAsking)

---------------------------------------------------------------------------
(* post_node called directly, on any state a caller can hand it *)

\* d, and d with key k set to each value of vs
WithKey(ds, k, vs) == ds \cup {Put(d, k, v) : d \in ds, v \in vs}

PostStates ==
    WithKey(WithKey(WithKey(WithKey({InitState(PROMPT_42, REQ_TOKEN)},
        "pr_number", {42, 7}),
        "review_ok", {TRUE, FALSE}),
        "final_review_comment", {T_EMPTY, T_EDIT}),
        "review_comment", {T_EMPTY, T_PAD})

InitPost ==
    /\ pc = "post"
    /\ pass = 1
    /\ state \in PostStates
    /\ tool_calls = <<>>
    /\ events = <<>>
    /\ env_token \in {NO_TOKEN, ENV_TOKEN}
    /\ client = NoClient
    /\ publishes = <<>>
    /\ llm_response = NoResponse
    /\ last_node = "none"
    /\ prompt = NoPrompt
    /\ gate_verdicts = <<>>
    /\ ever = NothingYet
    /\ final_response = T_EMPTY

PostSpec == InitPost /\ [][PostNode]_vars

---------------------------------------------------------------------------
(* service.run_pr_review_workflow: the agent workflow behind the HTTP API *)

\* the tools build_github_tools and build_state_tools hand to the agents
GithubTools == {"get_pr_details", "get_file_contents", "get_pr_commit_details",
                "post_pr_review"}
StateTools == {"add_contexts_to_state", "add_review_comment_to_state",
               "add_final_review_to_state"}

\* review(req): github_token = req.github_token or os.getenv("GITHUB_TOKEN")
ReviewToken(req_token, env) == IF req_token # NO_TOKEN THEN req_token ELSE env

InitService ==
    /\ pc = "service"
    /\ pass = 1
    /\ \E tok \in {NO_TOKEN, REQ_TOKEN} : state = InitState(PROMPT_42, tok)
    /\ tool_calls = <<>>
    /\ events = <<>>
    /\ env_token \in {NO_TOKEN, ENV_TOKEN}
    /\ client = NoClient
    /\ publishes = <<>>
    /\ llm_response = NoResponse
    /\ last_node = "none"
    /\ prompt = NoPrompt
    /\ gate_verdicts = <<>>
    /\ ever = NothingYet
    /\ final_response = T_EMPTY

\* client = GitHubClient(repo_url=repo_url, token=github_token), before the try
ServiceStart ==
    /\ pc = "service"
    /\ \E fault \in {"none", "repo"} :
        LET made == GitHubClient(ReviewToken(state["github_token"], env_token),
                                 env_token, fault)
        IN  /\ client' = made.client
            /\ pc' = IF made.ok THEN "svc_running" ELSE "svc_failed"
    /\ UNCHANGED <<pass, state, tool_calls, events, env_token, publishes, llm_response,
                   last_node, prompt, gate_verdicts, ever, final_response>>

\* one ToolCall event of handler.stream_events(): an agent calls a tool (at
\* most MaxLog calls in the model); post_pr_review creates a review
ServiceToolCall ==
    /\ pc = "svc_running"
    /\ Len(tool_calls) < MaxLog
    /\ \E tool \in GithubTools \cup StateTools :
        /\ tool_calls' = Log(tool_calls, ToolCall(tool, [kwargs |-> "agent"]))
        /\ events' = Log(events, ToolEvent(tool))
        /\ publishes' = IF tool = "post_pr_review"
                        THEN Append(publishes, [pr_number |-> 42, body |-> T_OK])
                        ELSE publishes
    /\ UNCHANGED <<pc, pass, state, env_token, client, llm_response, last_node, prompt,
                   gate_verdicts, ever, final_response>>

\* the stream has ended: the result is built, then the finally clause closes
ServiceReturn ==
    /\ pc = "svc_running"
    /\ \E final_text \in Drafts : final_response' = final_text
    /\ client' = Close(client)
    /\ pc' = "svc_returned"
    /\ UNCHANGED <<pass, state, tool_calls, events, env_token, publishes, llm_response,
                   last_node, prompt, gate_verdicts, ever>>

\* an exception leaves the try block: the finally clause closes
ServiceRaise ==
    /\ pc = "svc_running"
    /\ client' = Close(client)
    /\ pc' = "svc_failed"
    /\ UNCHANGED <<pass, state, tool_calls, events, env_token, publishes, llm_response,
                   last_node, prompt, gate_verdicts, ever, final_response>>

\* Both entry points of the program: the graph workflow and the agent workflow.
InitAny == Init \/ InitService

NextAny ==
    \/ ContextNode
    \/ CommentorNode(CommentorResponses)
    \/ ReviewerNode(ReviewerResponses)
    \/ PostNode
    \/ Ainvoke
    \/ Return
    \/ ServiceStart
    \/ ServiceToolCall
    \/ ServiceReturn
    \/ ServiceRaise

ClientSpec == InitAny /\ [][NextAny]_vars

---------------------------------------------------------------------------
(* context_node called twice in a row *)

ContextStates ==
    WithKey(WithKey({InitState(p, REQ_TOKEN) : p \in Prompts},
        "pr_number", {42}),
        "requested_files", FileRequests \cup {<<>>})

InitContext ==
    /\ pc = "call1"
    /\ pass = 1
    /\ state \in ContextStates
    /\ tool_calls = <<>>
    /\ events = <<>>
    /\ env_token \in {NO_TOKEN, ENV_TOKEN}
    /\ client = NoClient
    /\ publishes = <<>>
    /\ llm_response = NoResponse
    /\ last_node = "none"
    /\ prompt = NoPrompt
    /\ gate_verdicts = <<>>
    /\ ever = NothingYet
    /\ final_response = T_EMPTY

\* between the two calls the caller may store a request for files, as the
\* need_context branch of commentor_node does
ContextRequest ==
    /\ pc = "call2"
    /\ \E files \in FileRequests :
        state' = Put(Put(state, "needs_more_context", TRUE), "requested_files", files)
    /\ pc' = "call2r"
    /\ UNCHANGED <<pass, tool_calls, events, env_token, client, publishes, llm_response,
                   last_node, prompt, gate_verdicts, ever, final_response>>

\* await context_node(state), then again on the state it returned
ContextCall ==
    /\ pc \in {"call1", "call2", "call2r"}
    /\ \E fault \in ContextFaults :
        LET r == context_node(state, env_token, fault)
        IN  /\ state' = r.state
            /\ tool_calls' = LogAll(tool_calls, r.tcs)
            /\ events' = LogAll(events,
                    <<AgentEvent("ContextAgent")>> \o ToolEvents(r.tcs) \o r.outs)
            /\ client' = r.client
            /\ pc' = IF ~r.ok THEN "failed" ELSE IF pc = "call1" THEN "call2" ELSE "done"
    /\ last_node' = "context"
    /\ UNCHANGED <<pass, env_token, publishes, llm_response, prompt, gate_verdicts,
                   ever, final_response>>

NextContext == ContextCall \/ ContextRequest

ContextSpec == InitContext /\ [][NextContext]_vars

---------------------------------------------------------------------------
(* The steps called directly, with empty logs, and the graph run on from there *)

\* the state a first context step returns for "Please review PR #42"
AfterContext == context_node(InitState(PROMPT_42, REQ_TOKEN), ENV_TOKEN, "none").state

DirectStates ==
    WithKey(WithKey(WithKey({AfterContext},
        "review_comment", {T_PAD}),
        "force_commentor_final", {TRUE}),
        "review_ok", {TRUE, FALSE})

InitDirect ==
    /\ pc \in {"context", "commentor", "reviewer", "post"}
    /\ pass = 1
    /\ state \in DirectStates
    /\ tool_calls = <<>>
    /\ events = <<>>
    /\ env_token = ENV_TOKEN
    /\ client = NoClient
    /\ publishes = <<>>
    /\ llm_response = NoResponse
    /\ last_node = "none"
    /\ prompt = NoPrompt
    /\ gate_verdicts = <<>>
    /\ ever = NothingYet
    /\ final_response = T_EMPTY

NextDirect ==
    \/ ContextNode
    \/ CommentorNode(CommentorResponses)
    \/ ReviewerNode(ReviewerResponses)
    \/ PostNode

DirectSpec == InitDirect /\ [][NextDirect]_vars

---------------------------------------------------------------------------
(* Claims *)

Attempts(s) == GetOr(s, "reviewer_attempts", 0)

GateCalls == Len(gate_verdicts)

Rejected == \E i \in 1..Len(gate_verdicts) : gate_verdicts[i] = "rejected"

\* C1: post_node publishes only if review_ok is true when it executes; with
\* review_ok false or absent it publishes nothing, constructs no client,
\* records no publish tool call and returns normally.
C1_PublishOnlyWhenApproved ==
    last_node = "post" =>
        /\ publishes # <<>> => (Has(state, "review_ok") /\ state["review_ok"] = TRUE)
        /\ ~(Has(state, "review_ok") /\ state["review_ok"] = TRUE) =>
              /\ publishes = <<>>
              /\ tool_calls = <<>>
              /\ client.status = "none"
              /\ pc = "END"

\* C1 witness: post ran on a state with review_ok false and a final text, and left.
C1_Witness ==
    /\ last_node = "post"
    /\ pc = "END"
    /\ Has(state, "review_ok") /\ state["review_ok"] = FALSE
    /\ TextOf(state, "final_review_comment") = T_EDIT
    /\ Has(state, "pr_number") /\ state["pr_number"] = 42
    /\ env_token = ENV_TOKEN
    /\ publishes = <<>>

\* C2 (as claimed): a call of run_pr_review_workflow_langgraph in which no
\* step fails makes exactly one publish call.
C2_ExactlyOnePublish == pc = "returned" => Len(publishes) = 1

\* C3: with a gate that never approves and a draft step that always drafts,
\* the call ends: each graph execution invokes the gate at most
\* REVIEWER_ATTEMPT_CAP times, a rejection sets the escape flag and sends
\* control to the draft step, and eventually the call has returned (or a
\* step has failed).
C3_Terminates ==
    /\ [](GateCalls <= REVIEWER_ATTEMPT_CAP)
    /\ []((last_node = "reviewer" /\ pc = "commentor") =>
              (Has(state, "force_commentor_final") /\ state["force_commentor_final"] = TRUE))
    /\ <>(pc \in {"returned", "failed"})

\* C3 witness: the call returned although no gate pass approved and no
\* context was requested.
C3_Witness ==
    /\ pc = "returned"
    /\ ~ever.approved
    /\ ~ever.need_context
    /\ gate_verdicts = <<"rejected">>
    /\ Len(publishes) > 0

\* C4 (as claimed): review_ok true implies final_review_comment non-empty.
C4_ApprovedHasFinalText ==
    (Has(state, "review_ok") /\ state["review_ok"] = TRUE) =>
        (Has(state, "final_review_comment") /\ state["final_review_comment"] # <<>>)

\* C5: every reviewer_node invocation adds exactly 1 to reviewer_attempts,
\* whatever the verdict (also when the response makes the node raise); the
\* context, commentor and post steps leave it as it is.
C5_AttemptsCount ==
    [][ /\ pc = "reviewer" => Attempts(state') = Attempts(state) + 1
        /\ pc \in {"context", "commentor", "post"} => Attempts(state') = Attempts(state)
      ]_vars

\* C5 witness: the gate ran on an unparseable response and counted it.
C5_Witness ==
    /\ last_node = "reviewer"
    /\ llm_response.json = "invalid"
    /\ Attempts(state) = 1
    /\ pc = "commentor"

\* C6 (as claimed): after a completed gate invocation, reviewer_attempts >= 1
\* implies force_commentor_final, whatever the verdict.
C6_CapImpliesEscape ==
    (Attempts(state) >= REVIEWER_ATTEMPT_CAP /\ pc # "failed") =>
        (Has(state, "force_commentor_final") /\ state["force_commentor_final"] = TRUE)

\* C6 (amended): once a gate invocation of a graph execution has ended in a
\* rejection, reviewer_attempts >= 1 and force_commentor_final is true, and
\* the flag stays true in every later state of that graph execution.
C6_RejectionSetsEscape ==
    /\ [](Rejected =>
            /\ Attempts(state) >= REVIEWER_ATTEMPT_CAP
            /\ Has(state, "force_commentor_final")
            /\ state["force_commentor_final"] = TRUE)
    /\ [][ (Has(state, "force_commentor_final") /\ state["force_commentor_final"] = TRUE
            /\ pass' = pass)
           => (Has(state', "force_commentor_final") /\ state'["force_commentor_final"] = TRUE)
         ]_vars

\* C6 witness: a draft step has run after the rejection and the flag is still set.
C6_Witness ==
    /\ gate_verdicts = <<"rejected">>
    /\ last_node = "commentor"
    /\ Has(state, "force_commentor_final") /\ state["force_commentor_final"] = TRUE
    /\ Attempts(state) = 1

\* C7: after the draft step control goes to context if needs_more_context,
\* else to post if force_commentor_final, else to the gate; after the gate
\* to post if review_ok, else to the draft step.  An absent flag is false.
C7_Routers ==
    LET on(k) == k \in DOMAIN state /\ state[k] = TRUE
    IN  /\ (last_node = "commentor" /\ pc # "failed") =>
              pc = (IF on("needs_more_context") THEN "context"
                    ELSE IF on("force_commentor_final") THEN "post"
                    ELSE "reviewer")
        /\ (last_node = "reviewer" /\ pc # "failed") =>
              pc = (IF on("review_ok") THEN "post" ELSE "commentor")

\* C7 witness: a context request with the escape flag set goes to context.
C7_Witness ==
    /\ last_node = "commentor"
    /\ Has(state, "needs_more_context") /\ state["needs_more_context"] = TRUE
    /\ Has(state, "force_commentor_final") /\ state["force_commentor_final"] = TRUE
    /\ pc = "context"

\* what a response asks for or drafts, read as commentor_node reads it
AsksContext(resp) ==
    resp.json = "object" /\ "action" \in DOMAIN resp.data /\ resp.data["action"] = "need_context"

AskedFiles(resp) ==
    IF "requested_files" \in DOMAIN resp.data THEN resp.data["requested_files"] ELSE <<>>

DraftedText(resp) ==
    IF resp.json = "invalid" THEN resp.raw
    ELSE IF "review_comment" \in DOMAIN resp.data THEN resp.data["review_comment"]
    ELSE <<>>

\* the revision notes of a rejecting gate response
RejectionNotes(resp) ==
    IF resp.json = "invalid" THEN GENERIC_NOTE
    ELSE IF "revision_notes" \in DOMAIN resp.data THEN resp.data["revision_notes"]
    ELSE DEFAULT_NOTE

FetchedPaths(s) ==
    [i \in 1..Len(s["gathered_contexts"].extra_files) |->
        s["gathered_contexts"].extra_files[i].path]

\* C8: a need_context response sends control to the context step with the
\* request stored; a context step that completes has fetched exactly the
\* files requested at its entry, in order, and leaves needs_more_context
\* false and requested_files empty; so both are clear at every entry to the
\* draft step.
C8_ContextRequest ==
    /\ []((last_node = "commentor" /\ pc # "failed" /\ AsksContext(llm_response)) =>
            /\ pc = "context"
            /\ Has(state, "needs_more_context") /\ state["needs_more_context"] = TRUE
            /\ Has(state, "requested_files")
            /\ state["requested_files"] = AskedFiles(llm_response))
    /\ [](pc = "commentor" =>
            /\ Has(state, "needs_more_context") /\ state["needs_more_context"] = FALSE
            /\ Has(state, "requested_files") /\ state["requested_files"] = <<>>)
    /\ [][ (pc = "context" /\ pc' = "commentor") =>
              FetchedPaths(state') =
                  (IF Has(state, "requested_files") THEN state["requested_files"] ELSE <<>>)
         ]_vars

\* C8 witness: the context step has run on a request for two files and cleared it.
C8_Witness ==
    /\ last_node = "context"
    /\ pc = "commentor"
    /\ AsksContext(llm_response)
    /\ FetchedPaths(state) = <<"b.md", "a.py">>
    /\ state["needs_more_context"] = FALSE
    /\ state["requested_files"] = <<>>

\* C9: a rejecting gate stores the notes of its response and sends control
\* to the draft step, and the draft step that runs next builds its prompt
\* from those notes (stripped of surrounding whitespace, as every prompt is).
C9_NotesReachDraft ==
    /\ []((last_node = "reviewer" /\ pc # "failed" /\ ~IsApproval(ReviewerData(llm_response))) =>
            /\ pc = "commentor"
            /\ Has(state, "revision_notes")
            /\ state["revision_notes"] = RejectionNotes(llm_response))
    /\ [][ (last_node = "reviewer" /\ pc = "commentor" /\ last_node' = "commentor") =>
              /\ state["revision_notes"] = RejectionNotes(llm_response)
              /\ prompt'.revision_notes = Strip(RejectionNotes(llm_response))
         ]_vars

\* C9 witness: the draft step ran right after a rejection with the notes
\* " fix" and its prompt held "fix".
C9_Witness ==
    /\ last_node = "commentor"
    /\ gate_verdicts = <<"rejected">>
    /\ prompt.revision_notes = T_FIX
    /\ Has(state, "revision_notes") /\ state["revision_notes"] = T_FIXPAD

\* C10: while force_commentor_final is set the gate is not the next step,
\* and a draft step that returns a draft under the flag stores the drafted
\* text as review_comment and as final_review_comment, sets review_ok and
\* goes to post, also after need_context round trips.
C10_EscapeAcceptsDraft ==
    /\ (Has(state, "force_commentor_final") /\ state["force_commentor_final"] = TRUE) =>
          pc # "reviewer"
    /\ (/\ last_node = "commentor"
        /\ pc # "failed"
        /\ Has(state, "force_commentor_final") /\ state["force_commentor_final"] = TRUE
        /\ ~AsksContext(llm_response)) =>
          /\ Has(state, "review_comment")
          /\ state["review_comment"] = DraftedText(llm_response)
          /\ Has(state, "final_review_comment")
          /\ state["final_review_comment"] = DraftedText(llm_response)
          /\ Has(state, "review_ok") /\ state["review_ok"] = TRUE
          /\ pc = "post"

\* C10 witness: after the rejection the draft step asked for context (which
\* cleared the notes), then drafted, and the draft was accepted.
C10_Witness ==
    /\ last_node = "commentor"
    /\ pc = "post"
    /\ gate_verdicts = <<"rejected">>
    /\ Flag(state, "force_commentor_final")
    /\ TextOf(state, "revision_notes") = T_EMPTY
    /\ FetchedPaths(state) = <<"a.py">>
    /\ TextOf(state, "final_review_comment") = T_PAD
    /\ Flag(state, "review_ok")

Approved == \E i \in 1..Len(gate_verdicts) : gate_verdicts[i] = "approved"

\* C11: control reaches post only with review_ok true, and then a gate pass
\* of this graph execution approved or the escape flag is set; a publish is
\* made only by such a post step, and a post step that completes has
\* published (it never skips), so a call without a step failure has published.
C11_PublishIffApproved ==
    /\ [](pc = "post" =>
            /\ Has(state, "review_ok") /\ state["review_ok"] = TRUE
            /\ \/ Approved
               \/ Has(state, "force_commentor_final") /\ state["force_commentor_final"] = TRUE)
    /\ [][ /\ publishes' # publishes =>
                /\ pc = "post"
                /\ Has(state, "review_ok") /\ state["review_ok"] = TRUE
           /\ (pc = "post" /\ pc' = "END") => Len(publishes') = Len(publishes) + 1
         ]_vars
    /\ [](pc = "returned" => Len(publishes) > 0)

\* C11 witness: no gate pass approved, the escape flag brought control to
\* post, and post published.
C11_Witness ==
    /\ last_node = "post"
    /\ pc = "END"
    /\ pass = 1
    /\ gate_verdicts = <<"rejected">>
    /\ Flag(state, "force_commentor_final")
    /\ Len(publishes) = 1

\* C12: a draft step whose model output json.loads cannot parse does not
\* raise; review_comment is the raw text verbatim, needs_more_context is
\* false, and control goes to the gate, or to post under the escape flag.
C12_UnparseableIsDraft ==
    (last_node = "commentor" /\ llm_response.json = "invalid") =>
        /\ pc # "failed"
        /\ Has(state, "review_comment") /\ state["review_comment"] = llm_response.raw
        /\ Has(state, "needs_more_context") /\ state["needs_more_context"] = FALSE
        /\ pc = (IF Has(state, "force_commentor_final") /\ state["force_commentor_final"] = TRUE
                 THEN "post" ELSE "reviewer")

\* C12 witness: the unparseable text " ok " became the draft, spaces
\* included, and the gate is next.
C12_Witness ==
    /\ last_node = "commentor"
    /\ llm_response.json = "invalid"
    /\ TextOf(state, "review_comment") = T_PAD
    /\ pc = "reviewer"

\* C13 (as claimed): whatever the model answers, the draft step and the gate
\* step return a state; neither raises.
C13_NoModelOutputFails == last_node \in {"commentor", "reviewer"} => pc # "failed"

\* the response is a JSON object whose ok field is the boolean true
OkIsTrue(resp) ==
    resp.json = "object" /\ "ok" \in DOMAIN resp.data /\ resp.data["ok"] = "true"

\* C14: a gate whose model output json.loads cannot parse, or is a JSON
\* object whose ok field is not the boolean true (missing, false, the string
\* "true", 1), rejects: review_ok is false, the escape flag is set once
\* reviewer_attempts has reached the cap, control goes to the draft step; the
\* invocation is counted, and for unparseable output revision_notes is the
\* fixed generic note.
C14_UnparseableIsRejection ==
    /\ []((/\ last_node = "reviewer"
           /\ llm_response.json \in {"invalid", "object"}
           /\ ~OkIsTrue(llm_response)) =>
            /\ pc = "commentor"
            /\ Has(state, "review_ok") /\ state["review_ok"] = FALSE
            /\ Attempts(state) >= REVIEWER_ATTEMPT_CAP =>
                  (Has(state, "force_commentor_final") /\ state["force_commentor_final"] = TRUE)
            /\ llm_response.json = "invalid" =>
                  (Has(state, "revision_notes") /\ state["revision_notes"] = GENERIC_NOTE))
    /\ [][ (pc = "reviewer" /\ llm_response'.json \in {"invalid", "object"}) =>
              Attempts(state') = Attempts(state) + 1 ]_vars

\* C14 witness: the gate answered {"ok": "true"} (a string) and the draft
\* step is next with the escape flag set.
C14_Witness ==
    /\ last_node = "reviewer"
    /\ llm_response = Object([ok |-> "\"true\""])
    /\ pc = "commentor"
    /\ Flag(state, "force_commentor_final")
    /\ Attempts(state) = 1

\* C15: a host client is open only inside the step or the service call that
\* constructed it: after context_node and post_node, whether they returned or
\* raised, and when run_pr_review_workflow has returned or raised, the
\* client, if one was constructed, is closed, and close() was called on it
\* exactly once.
C15_ClientsClosed ==
    /\ [](/\ client.status = "open" => (pc = "svc_running" /\ client.closes = 0)
          /\ client.status = "closed" => client.closes = 1
          /\ client.status = "none" => client.closes = 0
          /\ pc = "svc_returned" => client.status = "closed")
    /\ [][ /\ (pc \in {"context", "post"} /\ tool_calls' # tool_calls) =>
                client'.status = "closed"
           /\ pc = "svc_running" /\ pc' # pc => client'.status = "closed"
         ]_vars

\* C15 witness: the PR-number extraction raised in context_node after the
\* client was constructed, and the client is closed.
C15_Witness ==
    /\ last_node = "context"
    /\ pc = "failed"
    /\ state["user_prompt"] = PROMPT_NONE
    /\ client.status = "closed"
    /\ client.closes = 1

\* gathered_contexts as a caller reads it: state.get("gathered_contexts")
GatheredOf(s) == IF Has(s, "gathered_contexts") THEN <<s["gathered_contexts"]>> ELSE <<>>

\* A context step that raises ends the graph execution and the call: no
\* step follows it, the step itself publishes nothing and leaves
\* gathered_contexts as it found it.
ContextFailureIsFinal ==
    [][ /\ pc # "failed"
        /\ (pc = "context" /\ pc' = "failed") =>
              /\ publishes' = publishes
              /\ GatheredOf(state') = GatheredOf(state)
      ]_vars

\* C16 (as claimed): when a fetch of the context step fails (the step raised
\* after its client was constructed) the call is aborted and no publish call
\* has been made for it.
C16_FetchFailureAborts ==
    (last_node = "context" /\ pc = "failed" /\ client.status = "closed") => publishes = <<>>

\* the PR number each user prompt of the model names, 0 when it names none
NamedPr(p) == IF p = PROMPT_42 THEN 42 ELSE IF p = PROMPT_7 THEN 7 ELSE 0

\* C17: pr_number, once stored, is the number user_prompt names and keeps
\* that value for the rest of the graph execution; every PR fetch and every
\* publish of the call uses that number; with a user_prompt that names no PR
\* the call fails in its first context step, with no tool-call record, no
\* pr_number and no publish.
C17_PrNumberFixed ==
    /\ [](Has(state, "pr_number") =>
            /\ state["user_prompt"] # PROMPT_NONE
            /\ state["pr_number"] = NamedPr(state["user_prompt"]))
    /\ [][ (Has(state, "pr_number") /\ pass' = pass) =>
              (Has(state', "pr_number") /\ state'["pr_number"] = state["pr_number"]) ]_vars
    /\ [](/\ \A i \in 1..Len(tool_calls) :
                "pr_number" \in DOMAIN tool_calls[i].args =>
                    tool_calls[i].args.pr_number = NamedPr(state["user_prompt"])
          /\ \A i \in 1..Len(publishes) :
                publishes[i].pr_number = NamedPr(state["user_prompt"]))
    /\ [](state["user_prompt"] = PROMPT_NONE =>
            /\ pc \in {"context", "failed"}
            /\ pass = 1
            /\ last_node \in {"none", "context"}
            /\ tool_calls = <<>>
            /\ publishes = <<>>)

\* C17 witness: a second context step (after a context request) fetched PR
\* 42 again and pr_number is still 42.
C17_Witness ==
    /\ last_node = "context"
    /\ pc = "commentor"
    /\ AsksContext(llm_response)
    /\ Has(state, "pr_number") /\ state["pr_number"] = 42
    /\ state["user_prompt"] = PROMPT_42

\* C18 (as claimed): the second of two context steps in a row stores the
\* same gathered_contexts as the first, whatever requested_files held at the
\* entry of the first.
C18_ContextIdempotent ==
    [][ (pc = "call2" /\ pc' = "done") => GatheredOf(state') = GatheredOf(state) ]_vars

\* C18 (amended): the first of two context steps in a row fetches the files
\* requested at its entry and clears the request; the second gathers the
\* same PR details and changed files and no file sections, so the two
\* results are equal when requested_files was empty or absent at the entry
\* of the first, and differ by the file sections otherwise.
C18_IdempotentWithoutRequest ==
    [][ /\ (pc = "call1" /\ pc' = "call2") =>
              FetchedPaths(state') =
                  (IF Has(state, "requested_files") THEN state["requested_files"] ELSE <<>>)
        /\ (pc = "call2" /\ pc' = "done") =>
              /\ state'["gathered_contexts"].pr_details = state["gathered_contexts"].pr_details
              /\ state'["gathered_contexts"].changed_files
                     = state["gathered_contexts"].changed_files
              /\ state'["gathered_contexts"].extra_files = <<>>
              /\ (GatheredOf(state') = GatheredOf(state)) <=> (FetchedPaths(state) = <<>>)
      ]_vars

\* C18 witness: two context steps in a row completed, the first without a
\* file request (two fetches, then the second step's PR fetch).
C18_Witness ==
    /\ pc = "done"
    /\ last_node = "context"
    /\ Len(tool_calls) = 3
    /\ tool_calls[3].tool = "get_pr_details_step"
    /\ FetchedPaths(state) = <<>>

\* C19 (as claimed): a constructed host client authenticates with the token
\* of the request when the request carries one, and with the environment's
\* token only when it carries none.
C19_RequestTokenUsed ==
    client.status # "none" =>
        client.token = (IF state["github_token"] # NO_TOKEN
                        THEN state["github_token"] ELSE env_token)

\* C20 (as claimed): when the call has returned, final_response is the
\* approved final_review_comment and every publish made during the call
\* carried exactly that text.
C20_ResponseIsPublishedText ==
    pc = "returned" =>
        /\ final_response = TextOf(state, "final_review_comment")
        /\ \A i \in 1..Len(publishes) : publishes[i].body = final_response

\* the steps of the graph
Steps == {"context", "commentor", "reviewer", "post"}

\* C21: a graph execution is a sequential path that starts at context and
\* follows only the edges context -> draft, draft -> {context, gate, post},
\* gate -> {draft, post}, post -> end: the step that runs next comes after a
\* step it has an edge from, a step that returns hands control to one of its
\* successors, and after post no step of that execution runs.
C21_SequentialPath ==
    /\ [](/\ pc = "context" => last_node \in {"none", "commentor"}
          /\ pc = "commentor" => last_node \in {"context", "reviewer"}
          /\ pc = "reviewer" => last_node = "commentor"
          /\ pc = "post" => last_node \in {"commentor", "reviewer"}
          /\ last_node = "post" => pc \notin Steps
          /\ last_node = "none" => pc = "context")
    /\ [][ /\ pc = "context" => pc' \in {"commentor", "failed"}
           /\ pc = "commentor" => pc' \in {"context", "reviewer", "post", "failed"}
           /\ pc = "reviewer" => pc' \in {"commentor", "post", "failed"}
           /\ pc = "post" => pc' \in {"END", "failed"}
           /\ pc \in Steps => last_node' = pc
           /\ pc \notin Steps => last_node' \in {"none", last_node}
         ]_vars

\* C21 witness: an execution went context, draft, context, draft, gate,
\* draft, post and ended.
C21_Witness ==
    /\ last_node = "post"
    /\ pc = "END"
    /\ pass = 1
    /\ ever.need_context
    /\ gate_verdicts = <<"rejected">>
    /\ FetchedPaths(state) = <<"a.py">>
    /\ TextOf(state, "revision_notes") # T_EMPTY

\* C22: in one graph execution the gate is invoked at most once and
\* reviewer_attempts never exceeds 1; after a rejection the draft that
\* follows goes to post, not to the gate.
C22_OneGatePass ==
    /\ GateCalls <= 1
    /\ Attempts(state) <= 1
    /\ Attempts(state) = GateCalls
    /\ Rejected => pc # "reviewer"
    /\ (Rejected /\ last_node = "commentor" /\ pc # "failed" /\ ~AsksContext(llm_response)) =>
          pc = "post"

\* C22 witness: the gate rejected once, the next draft went to post and the
\* execution ended with one gate invocation.
C22_Witness ==
    /\ last_node = "post"
    /\ pc = "END"
    /\ gate_verdicts = <<"rejected">>
    /\ Attempts(state) = 1
    /\ ~ever.need_context

\* C23 (as claimed): every graph execution in which no step fails reaches
\* post, also with a model whose draft step answers need_context every time.
C23_ReachesPost == <>(last_node = "post" \/ pc = "failed")

\* the fields a context request leaves alone
KeptOnContextRequest ==
    {"review_comment", "final_review_comment", "review_ok", "reviewer_attempts",
     "force_commentor_final", "pr_number", "gathered_contexts"}

\* C24: a draft step that answers need_context sets needs_more_context,
\* stores the returned list as requested_files, empties revision_notes and
\* leaves review_comment, final_review_comment, review_ok, reviewer_attempts,
\* force_commentor_final, pr_number and gathered_contexts as they were; a
\* draft step that answers a draft stores the new text as review_comment,
\* whatever the draft before.
C24_DraftStepFrame ==
    [][ (pc = "commentor" /\ pc' # "failed") =>
          IF AsksContext(llm_response')
          THEN /\ Has(state', "needs_more_context") /\ state'["needs_more_context"] = TRUE
               /\ Has(state', "requested_files")
               /\ state'["requested_files"] = AskedFiles(llm_response')
               /\ Has(state', "revision_notes") /\ state'["revision_notes"] = <<>>
               /\ \A k \in KeptOnContextRequest :
                     /\ Has(state', k) <=> Has(state, k)
                     /\ Has(state, k) => state'[k] = state[k]
          ELSE /\ Has(state', "review_comment")
               /\ state'["review_comment"] = DraftedText(llm_response')
      ]_vars

\* C24 witness: after a rejection the draft step asked for context: the
\* rejected draft " ok ", the counter and the escape flag are in place and
\* the notes are gone.
C24_Witness ==
    /\ last_node = "commentor"
    /\ pc = "context"
    /\ AsksContext(llm_response)
    /\ gate_verdicts = <<"rejected">>
    /\ TextOf(state, "review_comment") = T_PAD
    /\ Attempts(state) = 1
    /\ Flag(state, "force_commentor_final")
    /\ TextOf(state, "revision_notes") = T_EMPTY

\* C25 (as claimed): after a draft step that read non-empty revision notes
\* has completed, revision_notes is empty.
C25_NotesCleared ==
    (last_node = "commentor" /\ pc # "failed" /\ prompt.revision_notes # <<>>) =>
        TextOf(state, "revision_notes") = <<>>

\* the body the claim describes for a state
ClaimedBody(s) ==
    IF "final_review_comment" \in DOMAIN s /\ s["final_review_comment"] # <<>>
    THEN s["final_review_comment"]
    ELSE IF "review_comment" \in DOMAIN s THEN s["review_comment"]
    ELSE <<>>

\* the one record a publishing post step appends to tool_calls
PublishRecord(s) ==
    [tool |-> "post_review_comment",
     args |-> [pr_number |-> s["pr_number"], body_len |-> Len(ClaimedBody(s))]]

\* C26: a post step that publishes sends final_review_comment when that is
\* non-empty and review_comment (or the empty text) otherwise; a post step
\* appends at most one tool_calls record, which holds pr_number and the
\* body's length only, and the record is there whenever the publish call was
\* made, also when that call failed.
C26_PostBodyAndRecord ==
    last_node = "post" =>
        /\ Len(tool_calls) <= 1
        /\ Len(publishes) <= 1
        /\ publishes # <<>> =>
              /\ publishes[1].body = ClaimedBody(state)
              /\ publishes[1].pr_number = state["pr_number"]
              /\ tool_calls = <<PublishRecord(state)>>
        /\ tool_calls # <<>> =>
              /\ tool_calls = <<PublishRecord(state)>>
              /\ DOMAIN tool_calls[1].args = {"pr_number", "body_len"}
        /\ (pc = "failed" /\ client.status = "closed" /\ Has(state, "pr_number")) =>
              (tool_calls = <<PublishRecord(state)>> /\ publishes = <<>>)

\* C26 witness: the publish call failed for a state with an empty final
\* text and the draft " ok "; the record with body length 4 is in tool_calls.
C26_Witness ==
    /\ last_node = "post"
    /\ pc = "failed"
    /\ publishes = <<>>
    /\ Len(tool_calls) = 1
    /\ tool_calls[1].args.body_len = 4
    /\ TextOf(state, "final_review_comment") = T_EMPTY
    /\ Has(state, "pr_number") /\ state["pr_number"] = 42

\* the files requested in a state: state.get("requested_files", []) or []
RequestedAt(s) == IF "requested_files" \in DOMAIN s THEN s["requested_files"] ELSE <<>>

\* C27: a context step that completes stores a gathered_contexts built from
\* scratch: its file sections are those of the files in requested_files at
\* the step's entry, in that order, each with that file's content, whatever
\* gathered_contexts held before; sections of files fetched for an earlier
\* request are gone.
C27_GatheredOverwritten ==
    [][ (pc \in {"call1", "call2", "call2r"} /\ pc' \in {"call2", "done"}) =>
          /\ Has(state', "gathered_contexts")
          /\ state'["gathered_contexts"].extra_files =
                [i \in 1..Len(RequestedAt(state)) |->
                    [path |-> RequestedAt(state)[i],
                     content |-> FileContent(RequestedAt(state)[i])]]
          /\ state'["gathered_contexts"].pr_details.number = state'["pr_number"]
      ]_vars

\* C27 witness: the first context step fetched b.md (and a.py), the second
\* was asked for a.py only, and gathered_contexts holds the section of a.py
\* alone.
C27_Witness ==
    /\ pc = "done"
    /\ Len(tool_calls) = 3
    /\ tool_calls[3].tool = "get_file_contents_step"
    /\ tool_calls[3].args.file_path = "b.md"
    /\ FetchedPaths(state) = <<"a.py">>

IsPrefix(a, b) == Len(a) <= Len(b) /\ SubSeq(b, 1, Len(a)) = a

\* the agent name each step logs
AgentOf(step) ==
    CASE step = "context" -> "ContextAgent"
      [] step = "commentor" -> "CommentorAgent"
      [] step = "reviewer" -> "ReviewAndPostingAgent"
      [] step = "post" -> "PostToGitHub"

IsToolEvent(ev) == ev.type = "tool_call"

\* the state dict as the steps and routers receive it: the two logs are
\* entries of it
WithLogs(s, tcs, evs) == Put(Put(s, "tool_calls", tcs), "events", evs)

\* a state dict without its logs
Control(s) == [k \in DOMAIN s \ {"tool_calls", "events"} |-> s[k]]

\* the state dict of this moment, and the same with other logs
Actual == WithLogs(state, tool_calls, events)
Other == WithLogs(state, <<ToolCall("get_pr_details_step", [pr_number |-> 7])>>,
                  <<AgentEvent("PostToGitHub"), OutputEvent(Lit("Posted to GitHub."))>>)

\* C28: tool_calls and events only grow by appends: a step appends its agent
\* event first, every tool_calls record has its tool_call event, in order,
\* and no entry is removed or rewritten; the routers' decisions and what
\* each step returns, publishes and writes to the other fields are the same
\* for two state dicts that differ only in tool_calls and events.
C28_LogsObservabilityOnly ==
    /\ [][ /\ IsPrefix(tool_calls, tool_calls')
           /\ IsPrefix(events, events')
           /\ Len(events) < MaxLog =>
                 /\ Len(events') > Len(events)
                 /\ events'[Len(events) + 1] = [type |-> "agent", name |-> AgentOf(pc)]
         ]_vars
    /\ []((Len(events) < MaxLog /\ Len(tool_calls) < MaxLog) =>
            LET tool_events == SelectSeq(events, IsToolEvent)
            IN  /\ Len(tool_events) = Len(tool_calls)
                /\ \A i \in 1..Len(tool_calls) : tool_events[i].tool = tool_calls[i].tool)
    /\ [](/\ route_after_commentor(Actual) = route_after_commentor(Other)
          /\ route_after_reviewer(Actual) = route_after_reviewer(Other)
          /\ \A resp \in CommentorResponses :
                LET a == commentor_node(Actual, resp)
                    b == commentor_node(Other, resp)
                IN  a.ok = b.ok /\ Control(a.state) = Control(b.state) /\ a.outs = b.outs
          /\ \A resp \in ReviewerResponses :
                LET a == reviewer_node(Actual, resp)
                    b == reviewer_node(Other, resp)
                IN  a.ok = b.ok /\ Control(a.state) = Control(b.state) /\ a.outs = b.outs
          /\ \A fault \in ContextFaults :
                LET a == context_node(Actual, env_token, fault)
                    b == context_node(Other, env_token, fault)
                IN  a.ok = b.ok /\ Control(a.state) = Control(b.state) /\ a.tcs = b.tcs
          /\ \A fault \in PostFaults :
                LET a == post_node(Actual, env_token, fault)
                    b == post_node(Other, env_token, fault)
                IN  /\ a.ok = b.ok /\ Control(a.state) = Control(b.state)
                    /\ a.tcs = b.tcs /\ a.published = b.published)

\* C28 witness: a draft step under the escape flag and then post appended
\* their entries one after the other: two agent events with an output
\* between them in events, the publish record in tool_calls.
C28_Witness ==
    /\ last_node = "post"
    /\ pc = "END"
    /\ Len(events) = 3
    /\ events[1] = AgentEvent("CommentorAgent")
    /\ events[3] = AgentEvent("PostToGitHub")
    /\ Len(tool_calls) = 1
    /\ tool_calls[1].tool = "post_review_comment"

=============================================================================
